---- MODULE Spec2Model ----
(***************************************************************************)
(* A model of polarity.caster.PolarsCaster: the type coercion engine       *)
(* (attempt_cast, parse_date, parse_datetime), the row and table casters   *)
(* (cast_row, cast_dataframe) and the reconciler (split_dataframe).        *)
(*                                                                         *)
(* A value of a table cell is a record [k |-> kind, v |-> payload]:        *)
(*   "null"      Python None                                               *)
(*   "int"       a Python int, payload the integer                         *)
(*   "float"     a Python float, payload <<special, negative, whole part,  *)
(*               fractional digits>>, exact for floats written with at     *)
(*               most 15 significant digits                                *)
(*   "bool"      a Python bool, payload TRUE or FALSE                      *)
(*   "str"       a Python str, payload the sequence of its characters      *)
(*   "date"      a datetime.date, payload <<year, month, day>>             *)
(*   "datetime"  a datetime.datetime, payload                              *)
(*               <<year, month, day, hour, minute, second, tz>>            *)
(* A table (polars DataFrame) is [schema |-> sequence of <<column, dtype>>,*)
(* rows |-> sequence of rows], a row a function from the table's columns   *)
(* to values. A record schema (pydantic model) is the sequence of its      *)
(* field descriptors [name, type, format, anyOf].                          *)
(***************************************************************************)
EXTENDS Integers, Sequences, FiniteSets, TLC

VARIABLES
    df_new,        \* split_dataframe argument: the new table
    df_db,         \* split_dataframe argument: the stored table
    pks,           \* split_dataframe argument: the primary-key column list
    schema_name,   \* split_dataframe argument: the schema's name
    pc,            \* where split_dataframe stands
    casted_new,    \* cast_dataframe(df_new, schema_name)
    casted_db,     \* cast_dataframe(df_db, schema_name)
    ids_in_db,     \* key values of casted_db
    ids_in_both,   \* key values of casted_new found in ids_in_db
    idx,           \* position of the comparison loop in ids_in_both
    equals_ids,    \* keys whose rows compared identical
    update_ids,    \* keys whose rows compared different
    insert_df,     \* rows of df_new whose key is not in ids_in_db
    result,        \* <<insert_df, equals_df, update_df>> once returned
    raised,        \* the exception split_dataframe raised, "" for none
    cast_calls,    \* number of rows handed to cast_row so far
    call,          \* a call of the coercion engine: [fn, value, target_type]
    frames,        \* the calls of parse_date and parse_datetime in progress
    returned,      \* what the call returned, or the exception it raised
    recast,        \* attempt_cast applied to what attempt_cast returned
    step           \* where the call of the coercion engine stands

\* the variables of a call of split_dataframe and of a call of the engine
splitVars == <<df_new, df_db, pks, schema_name, pc, casted_new, casted_db, ids_in_db,
               ids_in_both, idx, equals_ids, update_ids, insert_df, result, raised, cast_calls>>
engineVars == <<call, frames, returned, recast, step>>
vars == <<splitVars, engineVars>>

----------------------------------------------------------------------------
(* Values *)

Null == [k |-> "null", v |-> 0]
IntV(n) == [k |-> "int", v |-> n]
StrV(s) == [k |-> "str", v |-> s]
DateV(y, m, d) == [k |-> "date", v |-> <<y, m, d>>]
\* tz is <<>> for a naive timestamp, <<offset in minutes>> for an aware one
DatetimeV(y, m, d, h, mi, s, tz) == [k |-> "datetime", v |-> <<y, m, d, h, mi, s, tz>>]

\* a float: the sign, the whole part and the fractional digits without
\* trailing zeros; NaN and the infinities are written apart
FloatV(neg, int, frac) == [k |-> "float", v |-> <<"", neg, int, frac>>]
NaN == [k |-> "float", v |-> <<"nan", FALSE, 0, <<>>>>]
Inf(neg) == [k |-> "float", v |-> <<"inf", neg, 0, <<>>>>]
BoolV(b) == [k |-> "bool", v |-> b]

\* The outcome of a call that raised instead of returning.
Raise(e) == [k |-> "raise", v |-> e]
IsRaise(x) == x.k = "raise"

Range(f) == {f[i] : i \in DOMAIN f}

----------------------------------------------------------------------------
(* Text helpers: Python str operations on character sequences *)

DigitChars == <<"0", "1", "2", "3", "4", "5", "6", "7", "8", "9">>
IsDigit(c) == c \in Range(DigitChars)
DigitVal(c) == (CHOOSE i \in DOMAIN DigitChars : DigitChars[i] = c) - 1
AllDigits(s) == \A i \in DOMAIN s : IsDigit(s[i])

\* c in s
Contains(s, c) == \E i \in DOMAIN s : s[i] = c

\* the least element of a non-empty set of numbers
Least(S) == CHOOSE i \in S : \A j \in S : i <= j

\* s.find(c, from), 1-based; 0 when absent
FindFrom(s, c, from) ==
    LET First(at) == IF at = {} THEN 0 ELSE Least(at)
    IN First({i \in from..Len(s) : s[i] = c})

\* s.split(c): the pieces of s between occurrences of c
Split(s, c) ==
    LET Pieces(at) ==
            LET Nth(k) == IF k = 0 THEN 0
                          ELSE IF k > Cardinality(at) THEN Len(s) + 1
                          ELSE CHOOSE i \in at : Cardinality({j \in at : j < i}) = k - 1
            IN [k \in 1..(Cardinality(at) + 1) |-> SubSeq(s, Nth(k - 1) + 1, Nth(k) - 1)]
    IN Pieces({i \in DOMAIN s : s[i] = c})

\* the number an all-digit text denotes (0 for the empty text)
DigitsVal(s) ==
    LET val[i \in 0..Len(s)] == IF i = 0 THEN 0 ELSE 10 * val[i - 1] + DigitVal(s[i])
    IN val[Len(s)]

\* s.strip(): whitespace here is the space character
Strip(s) ==
    LET Cut(ink) == IF ink = {} THEN <<>>
                    ELSE SubSeq(s, Least(ink), CHOOSE i \in ink : \A j \in ink : i >= j)
    IN Cut({i \in DOMAIN s : s[i] # " "})

\* s without its trailing zeros
DropZeros(s) ==
    LET Keep(ink) == IF ink = {} THEN <<>>
                     ELSE SubSeq(s, 1, CHOOSE i \in ink : \A j \in ink : i >= j)
    IN Keep({i \in DOMAIN s : s[i] # "0"})

\* s.lower()
UpperChars == <<"A", "B", "C", "D", "E", "F", "G", "H", "I", "J", "K", "L", "M",
                "N", "O", "P", "Q", "R", "S", "T", "U", "V", "W", "X", "Y", "Z">>
LowerChars == <<"a", "b", "c", "d", "e", "f", "g", "h", "i", "j", "k", "l", "m",
                "n", "o", "p", "q", "r", "s", "t", "u", "v", "w", "x", "y", "z">>
Lower(s) ==
    [i \in DOMAIN s |->
        IF s[i] \in Range(UpperChars)
        THEN LowerChars[CHOOSE n \in DOMAIN UpperChars : UpperChars[n] = s[i]]
        ELSE s[i]]

\* str(n) for an int n >= 0 of at most MaxDigits digits
MaxDigits == 5
NatText(n) ==
    LET rest[i \in 0..MaxDigits] == IF i = 0 THEN n ELSE rest[i - 1] \div 10
        Write(digits) == [i \in 1..digits |-> DigitChars[(rest[digits - i] % 10) + 1]]
    IN Write(Least({k \in 1..MaxDigits : rest[k] = 0}))
IntText(n) == IF n < 0 THEN <<"-">> \o NatText(0 - n) ELSE NatText(n)

\* s written with at least w characters, zeros put in front
Pad(s, w) == [i \in 1..(w - Len(s)) |-> "0"] \o s

----------------------------------------------------------------------------
(* Python built-ins on text.  The texts of this model are written with    *)
(* digits, "-", "/", ":", ".", "+", " " and letters; on such texts the    *)
(* operators below compute what Python computes ("nan", "inf" and         *)
(* "infinity" are read by float(); no exponent, underscore or fractional  *)
(* seconds occur, and no number of more than 15 significant digits).      *)

NoParse == [ok |-> FALSE, special |-> "", neg |-> FALSE, int |-> 0, frac |-> <<>>, fracZero |-> TRUE]

\* a stripped text without its sign: [neg, digits]
Unsigned(t) ==
    IF t # <<>> /\ t[1] \in {"+", "-"} THEN [neg |-> t[1] = "-", digits |-> Tail(t)]
    ELSE [neg |-> FALSE, digits |-> t]

\* the texts float() reads as NaN and as an infinity, in lower case
NanTexts == {<<"n", "a", "n">>}
InfTexts == {<<"i", "n", "f">>, <<"i", "n", "f", "i", "n", "i", "t", "y">>}

\* float(s): [ok, special, neg, int, frac, fracZero]; ok = FALSE is
\* ValueError, special is "nan" or "inf" for those, frac the fractional digits
\* without trailing zeros and fracZero whether there are none
PyFloat(s) ==
    LET Read(u) ==
            LET Special(word) ==
                    IF word \in NanTexts \cup InfTexts
                    THEN [ok |-> TRUE, special |-> IF word \in NanTexts THEN "nan" ELSE "inf",
                          neg |-> u.neg, int |-> 0, frac |-> <<>>, fracZero |-> FALSE]
                    ELSE NoParse
                Number(parts) ==
                    LET Value(frac) ==
                            [ok |-> TRUE, special |-> "", neg |-> u.neg,
                             int |-> DigitsVal(parts[1]), frac |-> frac, fracZero |-> frac = <<>>]
                    IN IF /\ Len(parts) <= 2
                          /\ \A i \in DOMAIN parts : AllDigits(parts[i])
                          /\ \E i \in DOMAIN parts : parts[i] # <<>>
                       THEN Value(IF Len(parts) = 1 THEN <<>> ELSE DropZeros(parts[2]))
                       ELSE Special(Lower(u.digits))
            IN Number(Split(u.digits, "."))
    IN Read(Unsigned(Strip(s)))

\* int(s) for a text s: [ok, n]; ok = FALSE is ValueError
PyInt(s) ==
    LET Read(u) ==
            LET Signed(n) == [ok |-> TRUE, n |-> IF u.neg THEN 0 - n ELSE n]
            IN IF u.digits # <<>> /\ AllDigits(u.digits)
               THEN Signed(DigitsVal(u.digits))
               ELSE [ok |-> FALSE, n |-> 0]
    IN Read(Unsigned(Strip(s)))

IsLeap(y) == (y % 4 = 0 /\ y % 100 # 0) \/ y % 400 = 0
DaysIn(y, m) ==
    IF m = 2 THEN (IF IsLeap(y) THEN 29 ELSE 28)
    ELSE IF m \in {4, 6, 9, 11} THEN 30 ELSE 31

\* date(y, m, d) succeeds
ValidDate(y, m, d) == y \in 1..9999 /\ m \in 1..12 /\ d >= 1 /\ d <= DaysIn(y, m)
ValidTime(h, mi, s) == h \in 0..23 /\ mi \in 0..59 /\ s \in 0..59

\* date(y, m, d): the date, or ValueError
MakeDate(y, m, d) == IF ValidDate(y, m, d) THEN DateV(y, m, d) ELSE Raise("ValueError")

\* date(int(a), int(b), int(c)) on three texts
MakeDateFromTexts(a, b, c) ==
    LET Make(x) == IF x[1].ok /\ x[2].ok /\ x[3].ok
                   THEN MakeDate(x[1].n, x[2].n, x[3].n)
                   ELSE Raise("ValueError")
    IN Make([i \in 1..3 |-> PyInt(<<a, b, c>>[i])])

\* date.fromisoformat(s): YYYY-MM-DD
FromIsoDate(s) ==
    LET Field(i) == SubSeq(s, <<1, 6, 9>>[i], <<4, 7, 10>>[i])
        Make(n) == MakeDate(n[1], n[2], n[3])
    IN IF /\ Len(s) = 10
          /\ s[5] = "-" /\ s[8] = "-"
          /\ \A i \in 1..3 : AllDigits(Field(i))
       THEN Make([i \in 1..3 |-> DigitsVal(Field(i))])
       ELSE Raise("ValueError")

\* datetime.combine(d, t) with the time zone tz
Combine(d, t, tz) == DatetimeV(d[1], d[2], d[3], t[1], t[2], t[3], tz)

\* two digits at position i of s, as a number; -1 when they are not digits
TwoAt(s, i) ==
    IF i + 1 <= Len(s) /\ IsDigit(s[i]) /\ IsDigit(s[i + 1])
    THEN DigitsVal(SubSeq(s, i, i + 1)) ELSE -1

\* HH, HH:MM or HH:MM:SS of a text as <<h, m, s>>, <<>> when it is no valid
\* time of these shapes
ClockOf(s) ==
    LET Check(t) == IF /\ Len(s) \in {2, 5, 8}
                       /\ Len(s) >= 5 => s[3] = ":"
                       /\ Len(s) >= 8 => s[6] = ":"
                       /\ ValidTime(t[1], t[2], t[3])
                    THEN <<t[1], t[2], t[3]>>
                    ELSE <<>>
    IN Check([i \in 1..3 |-> IF Len(s) >= 3 * i - 1 THEN TwoAt(s, 3 * i - 2) ELSE 0])

\* +HH:MM or -HH:MM of a text as <<minutes>>, <<>> when it is none
OffsetOf(s) ==
    LET Check(t) == IF /\ Len(s) = 6 /\ s[1] \in {"+", "-"} /\ s[4] = ":"
                       /\ t[1] \in 0..23 /\ t[2] \in 0..59
                    THEN <<(IF s[1] = "-" THEN -1 ELSE 1) * (60 * t[1] + t[2])>>
                    ELSE <<>>
    IN Check([i \in 1..2 |-> TwoAt(s, 3 * i - 1)])

\* the first of a list of outcomes that did not raise, ValueError when all did
FirstSuccess(outcomes) ==
    LET Pick(ok) == IF ok = {} THEN Raise("ValueError") ELSE outcomes[Least(ok)]
    IN Pick({i \in DOMAIN outcomes : ~IsRaise(outcomes[i])})

\* datetime.fromisoformat(s): YYYY-MM-DD, then optionally one separator
\* character, a time HH[:MM[:SS]] and an offset +HH:MM
FromIsoDatetime(s) ==
    LET rest == SubSeq(s, 12, Len(s))
        Timed(d, clock, tz) ==
            LET Zoned(offset) == IF offset # <<>> THEN Combine(d.v, clock, offset)
                                 ELSE Raise("ValueError")
            IN IF IsRaise(d) THEN d
               ELSE IF Len(s) = 10 THEN Combine(d.v, <<0, 0, 0>>, <<>>)
               ELSE IF clock = <<>> THEN Raise("ValueError")
               ELSE IF tz = <<>> THEN Combine(d.v, clock, <<>>)
               ELSE Zoned(OffsetOf(tz))
        Cut(signs) ==
            LET At(cut) == Timed(IF Len(s) >= 10 THEN FromIsoDate(SubSeq(s, 1, 10)) ELSE Raise("ValueError"),
                                 ClockOf(SubSeq(rest, 1, cut - 1)),
                                 SubSeq(rest, cut, Len(rest)))
            IN At(IF signs = {} THEN Len(rest) + 1 ELSE Least(signs))
    IN Cut({i \in DOMAIN rest : rest[i] \in {"+", "-"}})

\* value.date() of a timestamp
DateOf(dt) == DateV(dt.v[1], dt.v[2], dt.v[3])

\* the year strptime reads from %y
TwoDigitYear(n) == IF n <= 68 THEN 2000 + n ELSE 1900 + n

----------------------------------------------------------------------------
(* TemporalParser *)

\* A pattern of date_patterns or datetime_patterns: the separator and the
\* digit counts its regular expression asks of the three parts, the
\* positions its format reads year, month and day from, whether the year is
\* %y, and for a timestamp pattern the number of blank-separated words and
\* the clock (24 for %H, 12 for %I with %p; 0 for a date pattern).
Pattern(sep, lens, order, words, hours) ==
    [sep |-> sep, lens |-> lens, order |-> order, words |-> words, hours |-> hours]

Iso == <<{4}, {2}, {2}>>
Long == <<{1, 2}, {1, 2}, {4}>>
Short == <<{1, 2}, {1, 2}, {2}>>
Ymd == <<1, 2, 3>>
Mdy == <<3, 1, 2>>
Dmy == <<3, 2, 1>>

\* a slip in the table: the European formats put before the US formats
date_patterns_european_first ==
    <<Pattern("-", Iso, Ymd, 1, 0), Pattern("/", Iso, Ymd, 1, 0),
      Pattern("/", Long, Dmy, 1, 0), Pattern("-", Long, Dmy, 1, 0),
      Pattern("/", Short, Dmy, 1, 0), Pattern("-", Short, Dmy, 1, 0),
      Pattern("/", Long, Mdy, 1, 0), Pattern("-", Long, Mdy, 1, 0),
      Pattern("/", Short, Mdy, 1, 0), Pattern("-", Short, Mdy, 1, 0)>>

date_patterns ==
    <<Pattern("-", Iso, Ymd, 1, 0), Pattern("/", Iso, Ymd, 1, 0),
      Pattern("/", Long, Mdy, 1, 0), Pattern("-", Long, Mdy, 1, 0),
      Pattern("/", Short, Mdy, 1, 0), Pattern("-", Short, Mdy, 1, 0),
      Pattern("/", Long, Dmy, 1, 0), Pattern("-", Long, Dmy, 1, 0),
      Pattern("/", Short, Dmy, 1, 0), Pattern("-", Short, Dmy, 1, 0)>>

\* The three T patterns and the pattern YYYY-MM-DD HH:MM:SS accept nothing
\* the ISO stage of parse_datetime refused, so they never succeed and are
\* left out of the table.
datetime_patterns ==
    <<Pattern("/", Iso, Ymd, 2, 24),
      Pattern("/", Long, Mdy, 3, 12),
      Pattern("/", Long, Mdy, 2, 24),
      Pattern("/", Long, Dmy, 2, 24),
      Pattern("-", Long, Dmy, 2, 24)>>

\* re.match(pattern, s) and strptime(s, format) for the date part s of a
\* pattern: the date, or ValueError when either refuses
StrptimeDate(s, pattern) ==
    LET Read(p) ==
            LET Num(i) == DigitsVal(p[pattern.order[i]])
                Make(n) == MakeDate(IF pattern.lens[pattern.order[1]] = {2}
                                    THEN TwoDigitYear(n[1]) ELSE n[1], n[2], n[3])
            IN IF /\ Len(p) = 3
                  /\ \A i \in 1..3 : AllDigits(p[i]) /\ Len(p[i]) \in pattern.lens[i]
               THEN Make([i \in 1..3 |-> Num(i)])
               ELSE Raise("ValueError")
    IN Read(Split(s, pattern.sep))

\* strptime's %I:%M:%S %p on the texts clock and ampm: <<h, m, s>> or <<>>
Clock12(clock, ampm) ==
    LET Read(p) ==
            LET Time(n) ==
                    IF n[1] \in 1..12 /\ n[2] \in 0..59 /\ n[3] \in 0..59
                    THEN <<(n[1] % 12) + (IF ampm[1] = "P" THEN 12 ELSE 0), n[2], n[3]>>
                    ELSE <<>>
            IN IF /\ Len(p) = 3 /\ \A i \in 1..3 : AllDigits(p[i])
                  /\ Len(p[1]) \in {1, 2} /\ Len(p[2]) = 2 /\ Len(p[3]) = 2
                  /\ ampm \in {<<"A", "M">>, <<"P", "M">>}
               THEN Time([i \in 1..3 |-> DigitsVal(p[i])])
               ELSE <<>>
    IN Read(Split(clock, ":"))

\* re.match(pattern, s) and strptime(s, format) for a timestamp pattern
StrptimeDatetime(s, pattern) ==
    LET Read(w) ==
            LET Join(d, clock) == IF IsRaise(d) \/ clock = <<>> THEN Raise("ValueError")
                                  ELSE Combine(d.v, clock, <<>>)
            IN IF Len(w) # pattern.words THEN Raise("ValueError")
               ELSE Join(StrptimeDate(w[1], pattern),
                         IF pattern.hours = 12 THEN Clock12(w[2], w[3])
                         ELSE IF Len(w[2]) = 8 THEN ClockOf(w[2]) ELSE <<>>)
    IN Read(Split(s, " "))

\* parse_date, the fast path: the outcome of the try block; a block that
\* ends without returning goes on like one that raised
DateFastPath(s) ==
    LET Parse(date_part) ==
            LET Ints(p) == IF Len(p) = 3 THEN MakeDateFromTexts(p[1], p[2], p[3])
                           ELSE Raise("ValueError")
            IN IF Contains(s, "T") \/ ~Contains(s, " ") \/ Contains(date_part, "-")
               THEN FromIsoDate(date_part)
               ELSE IF Contains(date_part, "/") THEN Ints(Split(date_part, "/"))
               ELSE Raise("ValueError")
    IN Parse(IF Contains(s, "T") \/ Contains(s, " ")
             THEN Split(s, IF Contains(s, "T") THEN "T" ELSE " ")[1]
             ELSE s)

\* parse_date, the pattern table: the first matching pattern whose strptime
\* succeeds
DatePatterns(s) ==
    FirstSuccess([i \in DOMAIN date_patterns |-> StrptimeDate(s, date_patterns[i])])

\* parse_date, the manual fallback on one separator
DateManual(s, sep) ==
    LET Read(parts) ==
            LET orders == IF Len(parts) # 3 THEN <<>>
                          ELSE IF Len(parts[1]) = 4 THEN <<Ymd>>
                          ELSE IF Len(parts[3]) = 4 THEN <<Mdy, Dmy>>
                          ELSE <<>>
            IN FirstSuccess([i \in DOMAIN orders |->
                                MakeDateFromTexts(parts[orders[i][1]], parts[orders[i][2]],
                                                  parts[orders[i][3]])])
    IN Read(Split(s, sep))

\* parse_date on a text, up to the datetime-extraction fallback: the date,
\* or Raise("ValueError") when every stage failed
DateStages(s) ==
    FirstSuccess(<<DateFastPath(s), DatePatterns(s)>>
                 \o [i \in 1..2 |-> DateManual(s, <<"/", "-">>[i])])

\* value.replace('Z', '+00:00')
ReplaceZ(s) ==
    LET out[i \in 0..Len(s)] ==
            IF i = 0 THEN <<>>
            ELSE out[i - 1] \o (IF s[i] = "Z" THEN <<"+", "0", "0", ":", "0", "0">> ELSE <<s[i]>>)
    IN out[Len(s)]

\* the match of ([-+])(\d{2})(\d{2})$ rewritten with a colon, value[:-5] +
\* sign hh:mm, as a list of one text; the empty list without a match
FixOffset(s) ==
    LET n == Len(s)
    IN IF n >= 5 /\ s[n - 4] \in {"+", "-"} /\ AllDigits(SubSeq(s, n - 3, n))
       THEN <<SubSeq(s, 1, n - 3) \o <<s[n - 2]>> \o <<":">> \o SubSeq(s, n - 1, n)>>
       ELSE <<>>

\* parse_datetime, the ISO stage: the outcome of the first try block, the
\* texts it hands to fromisoformat tried in order
DatetimeIso(s) ==
    LET Try(texts) == FirstSuccess([i \in DOMAIN texts |-> FromIsoDatetime(texts[i])])
        At(t) == IF t > 0 /\ s[Len(s)] = "Z" THEN <<ReplaceZ(s)>>
                 ELSE IF t > 0 /\ (Contains(s, "+") \/ (Contains(s, "-") /\ t < FindFrom(s, "-", t)))
                 THEN <<s>> \o FixOffset(s)
                 ELSE <<s>>
    IN Try(At(FindFrom(s, "T", 1)))

\* parse_datetime, the pattern table
DatetimePatterns(s) ==
    FirstSuccess([i \in DOMAIN datetime_patterns |-> StrptimeDatetime(s, datetime_patterns[i])])

\* parse_datetime on a text, up to the date-only fallback
DatetimeStages(s) == FirstSuccess(<<DatetimeIso(s), DatetimePatterns(s)>>)

\* parse_date(value).  A text that no stage parses sends parse_date into
\* parse_datetime and parse_datetime back into parse_date with the same text,
\* without end: the interpreter raises RecursionError.
parse_date(value) ==
    LET Found(d) ==
            LET Extracted(dt) == IF IsRaise(dt) THEN Raise("RecursionError") ELSE DateOf(dt)
            IN IF IsRaise(d) THEN Extracted(DatetimeStages(value.v)) ELSE d
    IN IF value.k = "null" THEN Null
       ELSE IF value.k \in {"date", "datetime"} THEN value
       ELSE IF value.k = "str" THEN Found(DateStages(value.v))
       ELSE Null

\* parse_datetime(value)
parse_datetime(value) ==
    LET Found(dt) ==
            LET Zeroed(d) == IF IsRaise(d) THEN Raise("RecursionError")
                             ELSE Combine(d.v, <<0, 0, 0>>, <<>>)
            IN IF IsRaise(dt) THEN Zeroed(DateStages(value.v)) ELSE dt
    IN IF value.k = "null" THEN Null
       ELSE IF value.k = "datetime" THEN value
       ELSE IF value.k = "date" THEN Combine(value.v, <<0, 0, 0>>, <<>>)
       ELSE IF value.k = "str" THEN Found(DatetimeStages(value.v))
       ELSE Null

----------------------------------------------------------------------------
(* TypeCoercionEngine *)

\* isinstance(value, target_type); datetime is a subclass of date and bool
\* a subclass of int
IsInstance(value, target_type) ==
    \/ target_type = "int" /\ value.k \in {"int", "bool"}
    \/ target_type = "float" /\ value.k = "float"
    \/ target_type = "str" /\ value.k = "str"
    \/ target_type = "bool" /\ value.k = "bool"
    \/ target_type = "date" /\ value.k \in {"date", "datetime"}
    \/ target_type = "datetime" /\ value.k = "datetime"

\* str(value) of a float
FloatText(v) ==
    IF v[1] = "nan" THEN <<"n", "a", "n">>
    ELSE (IF v[2] THEN <<"-">> ELSE <<>>)
         \o (IF v[1] = "inf" THEN <<"i", "n", "f">>
             ELSE NatText(v[3]) \o <<".">> \o (IF v[4] = <<>> THEN <<"0">> ELSE v[4]))

\* str(value)
PyStr(value) ==
    LET v == value.v
        day == Pad(NatText(v[1]), 4) \o <<"-">> \o Pad(NatText(v[2]), 2) \o <<"-">> \o Pad(NatText(v[3]), 2)
        off == IF value.k = "datetime" /\ v[7] # <<>> THEN v[7][1] ELSE 0
        mag == IF off < 0 THEN 0 - off ELSE off
    IN IF value.k = "int" THEN IntText(v)
       ELSE IF value.k = "float" THEN FloatText(v)
       ELSE IF value.k = "bool" THEN (IF v THEN <<"T", "r", "u", "e">> ELSE <<"F", "a", "l", "s", "e">>)
       ELSE IF value.k = "date" THEN day
       ELSE IF value.k = "datetime"
       THEN day \o <<" ">> \o Pad(NatText(v[4]), 2) \o <<":">> \o Pad(NatText(v[5]), 2)
                \o <<":">> \o Pad(NatText(v[6]), 2)
                \o (IF v[7] = <<>> THEN <<>>
                    ELSE <<IF off < 0 THEN "-" ELSE "+">> \o Pad(NatText(mag \div 60), 2)
                         \o <<":">> \o Pad(NatText(mag % 60), 2))
       ELSE v

\* what float(s) read, as a value: the float, or null for ValueError
FloatOf(f) ==
    IF ~f.ok THEN Null
    ELSE IF f.special = "nan" THEN NaN
    ELSE IF f.special = "inf" THEN Inf(f.neg)
    ELSE FloatV(f.neg, f.int, f.frac)

\* a slip in the cast to int: the fractional part is dropped, not refused
IntOfTextTruncating(f) ==
    IF f.ok THEN IntV(IF f.neg THEN 0 - f.int ELSE f.int) ELSE Null

\* a slip in the cast to int: the float read from the text is returned as it is
IntOfTextAsFloat(f) ==
    IF f.ok /\ f.fracZero THEN FloatV(f.neg, f.int, <<>>) ELSE Null

\* lines 90-97: a text cast to int.  The text is read as a float; a float
\* without a fractional part gives its integer, any other and a text that
\* is no number give null.
IntOfText(f) ==
    IF f.ok /\ f.fracZero THEN IntV(IF f.neg THEN 0 - f.int ELSE f.int) ELSE Null

\* lines 98-101: a float cast to int
IntOfFloat(v) ==
    IF v[1] = "" /\ v[4] = <<>> THEN IntV(IF v[2] THEN 0 - v[3] ELSE v[3]) ELSE Null

\* the texts the cast to bool reads as true and as false, lines 113 and 115
TrueTexts == {<<"t", "r", "u", "e">>, <<"y", "e", "s">>, <<"1">>, <<"t">>, <<"y">>}
FalseTexts == {<<"f", "a", "l", "s", "e">>, <<"n", "o">>, <<"0">>, <<"f">>, <<"n">>, <<>>}

\* a slip in the cast to bool: a text that is no word for true gives false
BoolOfTextOtherFalse(value_lower) == BoolV(value_lower \in TrueTexts)

\* lines 111-117: a text cast to bool, value_lower = value.lower().strip()
BoolOfText(value_lower) ==
    IF value_lower \in TrueTexts THEN BoolV(TRUE)
    ELSE IF value_lower \in FalseTexts THEN BoolV(FALSE)
    ELSE BoolV(value_lower # <<>>)

\* lines 118-121: an int or a float cast to bool
BoolOfNumber(value) ==
    IF value.k = "int" THEN BoolV(value.v # 0)
    ELSE IF value.v[1] = "nan" THEN Null
    ELSE BoolV(~(value.v[1] = "" /\ value.v[3] = 0 /\ value.v[4] = <<>>))

\* line 105: float(value)
FloatOfValue(value) ==
    IF value.k = "str" THEN FloatOf(PyFloat(value.v))
    ELSE IF value.k = "int" THEN FloatV(value.v < 0, IF value.v < 0 THEN 0 - value.v ELSE value.v, <<>>)
    ELSE IF value.k = "bool" THEN FloatV(FALSE, IF value.v THEN 1 ELSE 0, <<>>)
    ELSE Null                           \* float(a date) is a TypeError

\* attempt_cast(value, target_type), target_type one of int, float, str,
\* bool, date, datetime
attempt_cast(value, target_type) ==
    IF value.k = "null" THEN Null
    ELSE IF IsInstance(value, target_type) THEN value
    ELSE IF target_type = "int"
    THEN IF value.k = "str" THEN IntOfText(PyFloat(value.v))
         ELSE IF value.k = "float" THEN IntOfFloat(value.v)
         ELSE Null                      \* int(a date) is a TypeError
    ELSE IF target_type = "float" THEN FloatOfValue(value)
    ELSE IF target_type = "str" THEN StrV(PyStr(value))
    ELSE IF target_type = "bool"
    THEN IF value.k = "str" THEN BoolOfText(Strip(Lower(value.v)))
         ELSE IF value.k \in {"int", "float"} THEN BoolOfNumber(value)
         ELSE BoolV(TRUE)               \* bool(a date) is True
    ELSE IF target_type = "date" THEN parse_date(value)
    ELSE IF target_type = "datetime" THEN parse_datetime(value)
    ELSE Null

----------------------------------------------------------------------------
(* Schema descriptors.  A field of a record schema is what cast_row reads  *)
(* from model_json_schema()["properties"]: [name, type, format, anyOf], a  *)
(* required field carrying its type, a nullable one the type "null" and    *)
(* the alternatives in anyOf.                                              *)

NoFormat == ""
Required(name, type, format) == [name |-> name, type |-> type, format |-> format, anyOf |-> <<>>]
Optional(name, type, format) ==
    [name |-> name, type |-> "null", format |-> NoFormat,
     anyOf |-> <<[type |-> type, format |-> format], [type |-> "null", format |-> NoFormat]>>]

\* the type and format after the Optional wrapper is resolved: the first
\* alternative that is not null
Resolved(field_info) ==
    LET alts == {i \in DOMAIN field_info.anyOf : field_info.anyOf[i].type # "null"}
    IN IF field_info.type = "null" /\ field_info.anyOf # <<>> /\ alts # {}
       THEN field_info.anyOf[CHOOSE i \in alts : \A j \in alts : i <= j]
       ELSE [type |-> field_info.type, format |-> field_info.format]

\* the Python type cast_row hands to attempt_cast, "" when it casts nothing
TargetType(field_info) ==
    LET r == Resolved(field_info)
    IN IF r.type = "integer" THEN "int"
       ELSE IF r.type = "number" THEN "float"
       ELSE IF r.type = "string"
       THEN IF r.format = "date-time" THEN "datetime"
            ELSE IF r.format = "date" THEN "date" ELSE "str"
       ELSE IF r.type = "boolean" THEN "bool"
       ELSE ""

\* a slip in the column typing: the Optional wrapper is not resolved
PolarsTypeUnresolved(field_info) ==
    IF field_info.type = "integer" THEN "Int64"
    ELSE IF field_info.type = "number" THEN "Float64"
    ELSE IF field_info.type = "string"
    THEN IF field_info.format = "date-time" THEN "Datetime"
         ELSE IF field_info.format = "date" THEN "Date" ELSE "Utf8"
    ELSE IF field_info.type = "boolean" THEN "Boolean"
    ELSE "Utf8"

\* _get_polars_schema(schema): the column types of a casted table
PolarsType(field_info) ==
    LET r == Resolved(field_info)
    IN IF r.type = "integer" THEN "Int64"
       ELSE IF r.type = "number" THEN "Float64"
       ELSE IF r.type = "string"
       THEN IF r.format = "date-time" THEN "Datetime"
            ELSE IF r.format = "date" THEN "Date" ELSE "Utf8"
       ELSE IF r.type = "boolean" THEN "Boolean"
       ELSE "Utf8"
_get_polars_schema(schema) ==
    [i \in DOMAIN schema |-> <<schema[i].name, PolarsType(schema[i])>>]

----------------------------------------------------------------------------
(* RowCaster and TableCaster *)

\* the registry the caster is built with: schema name -> record schema
schema_mapping ==
    [personas |-> <<Required("id", "integer", NoFormat),
                    Optional("edad", "integer", NoFormat),
                    Optional("fecha", "string", "date")>>,
     contratos |-> <<Required("id", "integer", NoFormat),
                     Required("edad", "integer", NoFormat),
                     Optional("fecha", "string", "date")>>,
     eventos |-> <<Required("id", "integer", NoFormat),
                   Optional("momento", "string", "date-time"),
                   Optional("nombre", "string", NoFormat)>>]

FieldNames(schema) == {schema[i].name : i \in DOMAIN schema}
FieldOf(schema, name) == schema[CHOOSE i \in DOMAIN schema : schema[i].name = name]

\* the loop of cast_row: every schema field the row carries is coerced, every
\* other column is left as it is
Coerced(schema, row) ==
    [c \in DOMAIN row |->
        IF c \in FieldNames(schema) /\ TargetType(FieldOf(schema, c)) # ""
        THEN attempt_cast(row[c], TargetType(FieldOf(schema, c)))
        ELSE row[c]]

\* schema(**processed_row): what the validation makes of one declared field.
\* A null is accepted by a nullable field only; an absent column takes the
\* default of a nullable field and fails a required one; a date field takes a
\* timestamp only at midnight, as its date.
Validated(field_info, processed_row) ==
    LET present == field_info.name \in DOMAIN processed_row
        value == processed_row[field_info.name]
        nullable == field_info.type = "null"
    IN IF ~present \/ value.k = "null"
       THEN IF nullable THEN Null ELSE Raise("ValidationError")
       ELSE IF TargetType(field_info) = "date" /\ value.k = "datetime"
       THEN IF value.v[4] = 0 /\ value.v[5] = 0 /\ value.v[6] = 0
            THEN DateOf(value) ELSE Raise("ValidationError")
       ELSE value

\* cast_row(schema, row): [exc, row], exc "" with the validated row
\* (model_dump: the declared fields only), exc "ValueError" when validation
\* fails, or the exception a coercion let through
cast_row(schema, row) ==
    LET Dump(dumped) ==
            IF \E name \in FieldNames(schema) : IsRaise(dumped[name])
            THEN [exc |-> "ValueError", row |-> <<>>]
            ELSE [exc |-> "", row |-> dumped]
        Validate(processed_row) ==
            LET escaped == {c \in DOMAIN row : IsRaise(processed_row[c])}
            IN IF escaped # {}
               THEN [exc |-> processed_row[CHOOSE c \in escaped : TRUE].v, row |-> <<>>]
               ELSE Dump([name \in FieldNames(schema) |->
                             Validated(FieldOf(schema, name), processed_row)])
    IN Validate(Coerced(schema, row))

EmptyTable(schema) == [schema |-> schema, rows |-> <<>>]
Columns(df) == {df.schema[i][1] : i \in DOMAIN df.schema}

\* the rows that cast_row returned, in order (a row whose validation fails
\* is printed and skipped); outcomes is what cast_row made of each row
CastRows(outcomes) ==
    LET casted_rows[i \in 0..Len(outcomes)] ==
            IF i = 0 THEN <<>>
            ELSE IF outcomes[i].exc = "" THEN Append(casted_rows[i - 1], outcomes[i].row)
            ELSE casted_rows[i - 1]
    IN casted_rows[Len(outcomes)]

\* the rows on which cast_row raises something cast_dataframe does not catch
Escapes(outcomes) == {i \in DOMAIN outcomes : outcomes[i].exc \notin {"", "ValueError"}}

\* cast_dataframe(df, schema_name): [exc, df, calls], exc "" with the casted
\* table, or the exception that ended the loop; calls counts the rows handed
\* to cast_row
cast_dataframe(df, name) ==
    LET Collect(schema, outcomes) ==
            LET esc == Escapes(outcomes)
            IN IF df.rows = <<>>
               THEN [exc |-> "", df |-> EmptyTable(_get_polars_schema(schema)), calls |-> 0]
               ELSE IF esc # {}
               THEN [exc |-> outcomes[Least(esc)].exc, df |-> EmptyTable(<<>>), calls |-> Least(esc)]
               ELSE [exc |-> "",
                     df |-> [schema |-> _get_polars_schema(schema), rows |-> CastRows(outcomes)],
                     calls |-> Len(df.rows)]
    IN IF name \notin DOMAIN schema_mapping
       THEN [exc |-> "KeyError", df |-> EmptyTable(<<>>), calls |-> 0]
       ELSE Collect(schema_mapping[name],
                    [i \in DOMAIN df.rows |-> cast_row(schema_mapping[name], df.rows[i])])

----------------------------------------------------------------------------
(* Reconciler: split_dataframe(df_new, df_db, pks, schema_name) *)

NoError == [type |-> "", what |-> "", table |-> "", column |-> "", count |-> 0]
Error(type, what, table, column, count) ==
    [type |-> type, what |-> what, table |-> table, column |-> column, count |-> count]

\* df.select(pl.col(pk).is_null().sum()).item()
NullCount(df, pk) == Cardinality({i \in DOMAIN df.rows : df.rows[i][pk].k = "null"})

\* lines 418-422, the test: pk is missing from one of the original tables
IsMissing(pk) == pk \notin Columns(df_new) \/ pk \notin Columns(df_db)

\* a slip in the message: the new table named whichever table lacks the column
MissingColumnErrorNamingNew(pk) == Error("ValueError", "does not exist", "df_new", pk, 0)

\* lines 418-422, the exception: the new table is looked at first
MissingColumnError(pk) ==
    IF pk \notin Columns(df_new)
    THEN Error("ValueError", "does not exist", "df_new", pk, 0)
    ELSE Error("ValueError", "does not exist", "df_db", pk, 0)

\* a slip in the test: the stored table's key column is not looked at
HasNullInNewOnly(pk) == NullCount(df_new, pk) > 0

\* lines 425-432, the test: pk holds a null in one of the original tables
HasNull(pk) == NullCount(df_new, pk) > 0 \/ NullCount(df_db, pk) > 0

\* lines 425-432, the exception: the new table is looked at first
NullKeyError(pk) ==
    IF NullCount(df_new, pk) > 0
    THEN Error("ValueError", "contains null values", "df_new", pk, NullCount(df_new, pk))
    ELSE Error("ValueError", "contains null values", "df_db", pk, NullCount(df_db, pk))

\* lines 418 and 425, `for pk in pks`: the positions of pks whose column is
\* missing, and those whose column holds a null
MissingPks == {i \in DOMAIN pks : IsMissing(pks[i])}
NullPks == {i \in DOMAIN pks : HasNull(pks[i])}

\* lines 409-432, the checks made on the original tables before anything is
\* cast: the exception they raise, NoError when they pass
ArgumentError ==
    IF schema_name \notin DOMAIN schema_mapping
    THEN Error("KeyError", "no schema", "", "", 0)
    ELSE IF pks = <<>>
    THEN Error("ValueError", "cannot be empty", "", "", 0)
    ELSE IF MissingPks # {}
    THEN MissingColumnError(pks[Least(MissingPks)])
    ELSE IF NullPks # {}
    THEN NullKeyError(pks[Least(NullPks)])
    ELSE NoError

\* df.filter(pl.col(pk).is_in(ids))
FilterIn(df, pk, ids) ==
    [schema |-> df.schema, rows |-> SelectSeq(df.rows, LAMBDA r : r[pk] \in Range(ids))]

\* a slip in the filter: every row is kept
FilterNotInKeepingAll(df, pk, ids) == df

\* a slip in the filter: the negation is lost
FilterNotInWithoutNot(df, pk, ids) ==
    [schema |-> df.schema, rows |-> SelectSeq(df.rows, LAMBDA r : r[pk] \in Range(ids))]

\* df.filter(~pl.col(pk).is_in(ids))
FilterNotIn(df, pk, ids) ==
    [schema |-> df.schema, rows |-> SelectSeq(df.rows, LAMBDA r : r[pk] \notin Range(ids))]

\* df.select(pks).to_dict(as_series=False)[pk]: the column pk as a list
ColumnList(df, pk) == [i \in DOMAIN df.rows |-> df.rows[i][pk]]

\* a slip in the fetch: the last row of the key is taken
LastRow(df, pk, id_val) ==
    df.rows[CHOOSE i \in DOMAIN df.rows :
                /\ df.rows[i][pk] = id_val
                /\ \A j \in (i + 1)..Len(df.rows) : df.rows[j][pk] # id_val]

\* df.filter(pl.col(pk) == id_val).to_dicts()[0]
FirstRow(df, pk, id_val) ==
    df.rows[CHOOSE i \in DOMAIN df.rows :
                /\ df.rows[i][pk] = id_val
                /\ \A j \in 1..(i - 1) : df.rows[j][pk] # id_val]

\* the date part of a date or of a timestamp
DatePart(value) == IF value.k = "datetime" THEN DateOf(value) ELSE value

\* a slip in the field loop: a null on either side ends the comparison of the
\* field as equal
FieldDiffersNullBlind(a, b) ==
    IF a.k = "null" \/ b.k = "null" THEN FALSE
    ELSE IF a.k \in {"date", "datetime"} /\ b.k \in {"date", "datetime"}
    THEN DatePart(a) # DatePart(b)
    ELSE a # b

\* a slip in the field loop: dates and timestamps compared as they are
FieldDiffersExact(a, b) ==
    IF a.k = "null" /\ b.k = "null" THEN FALSE
    ELSE IF a.k = "null" \/ b.k = "null" THEN TRUE
    ELSE a # b

\* lines 469-492, one turn of the field loop: TRUE when the field makes the
\* rows differ
FieldDiffers(a, b) ==
    IF a.k = "null" /\ b.k = "null" THEN FALSE
    ELSE IF a.k = "null" \/ b.k = "null" THEN TRUE
    ELSE IF a.k \in {"date", "datetime"} /\ b.k \in {"date", "datetime"}
    THEN DatePart(a) # DatePart(b)
    ELSE a # b

\* is_identical after the field loop over row_new, started at field i of keys
RECURSIVE IsIdenticalFrom(_, _, _, _)
IsIdenticalFrom(row_new, row_db, keys, i) ==
    IF i > Len(keys) THEN TRUE
    ELSE IF keys[i] \in DOMAIN row_db /\ keys[i] \notin Range(pks)
            /\ FieldDiffers(row_new[keys[i]], row_db[keys[i]])
    THEN FALSE
    ELSE IsIdenticalFrom(row_new, row_db, keys, i + 1)

\* the keys of a casted row, in the order of the schema
RowKeys(df) == [i \in DOMAIN df.schema |-> df.schema[i][1]]

is_identical(id_val) ==
    IsIdenticalFrom(FirstRow(casted_new, pks[1], id_val), FirstRow(casted_db, pks[1], id_val),
                    RowKeys(casted_new), 1)

\* split_dataframe, lines 409-432: the schema lookup and the key checks
CheckArguments ==
    /\ pc = "start"
    /\ raised' = ArgumentError
    /\ pc' = IF ArgumentError = NoError THEN "checked" ELSE "raised"
    /\ UNCHANGED <<df_new, df_db, pks, schema_name, casted_new, casted_db, ids_in_db,
                   ids_in_both, idx, equals_ids, update_ids, insert_df, result, cast_calls>>
    /\ UNCHANGED engineVars

\* a slip in the edge cases: the empty stored table is not singled out
HandleEmptyNewOnly ==
    /\ pc = "checked"
    /\ IF df_new.rows = <<>>
       THEN LET empty_df == EmptyTable(_get_polars_schema(schema_mapping[schema_name]))
            IN result' = <<empty_df, empty_df, empty_df>> /\ pc' = "returned"
       ELSE result' = result /\ pc' = "cast_new"
    /\ UNCHANGED <<df_new, df_db, pks, schema_name, casted_new, casted_db, ids_in_db,
                   ids_in_both, idx, equals_ids, update_ids, insert_df, raised, cast_calls>>
    /\ UNCHANGED engineVars

\* lines 438-446: an empty new table, then an empty stored table
HandleEmpty ==
    /\ pc = "checked"
    /\ IF df_new.rows = <<>>
       THEN LET empty_df == EmptyTable(_get_polars_schema(schema_mapping[schema_name]))
            IN result' = <<empty_df, empty_df, empty_df>> /\ pc' = "returned"
       ELSE IF df_db.rows = <<>>
       THEN LET empty_df == EmptyTable(df_new.schema)
            IN result' = <<df_new, empty_df, empty_df>> /\ pc' = "returned"
       ELSE result' = result /\ pc' = "cast_new"
    /\ UNCHANGED <<df_new, df_db, pks, schema_name, casted_new, casted_db, ids_in_db,
                   ids_in_both, idx, equals_ids, update_ids, insert_df, raised, cast_calls>>
    /\ UNCHANGED engineVars

\* line 449: casted_new = self.cast_dataframe(df_new, schema_name)
CastNew ==
    /\ pc = "cast_new"
    /\ \E r \in {cast_dataframe(df_new, schema_name)} :
          /\ casted_new' = r.df
          /\ cast_calls' = cast_calls + r.calls
          /\ raised' = IF r.exc = "" THEN raised ELSE Error(r.exc, "cast_row", "df_new", "", 0)
          /\ pc' = IF r.exc = "" THEN "cast_db" ELSE "raised"
    /\ UNCHANGED <<df_new, df_db, pks, schema_name, casted_db, ids_in_db,
                   ids_in_both, idx, equals_ids, update_ids, insert_df, result>>
    /\ UNCHANGED engineVars

\* line 450: casted_db = self.cast_dataframe(df_db, schema_name)
CastDb ==
    /\ pc = "cast_db"
    /\ \E r \in {cast_dataframe(df_db, schema_name)} :
          /\ casted_db' = r.df
          /\ cast_calls' = cast_calls + r.calls
          /\ raised' = IF r.exc = "" THEN raised ELSE Error(r.exc, "cast_row", "df_db", "", 0)
          /\ pc' = IF r.exc = "" THEN "find" ELSE "raised"
    /\ UNCHANGED <<df_new, df_db, pks, schema_name, casted_new, ids_in_db,
                   ids_in_both, idx, equals_ids, update_ids, insert_df, result>>
    /\ UNCHANGED engineVars

\* lines 452-460: the rows to insert and the keys found in both casted
\* tables.  select(pks) raises when a key column is no field of the schema.
FindInserts ==
    /\ pc = "find"
    /\ IF \E i \in DOMAIN pks : pks[i] \notin Columns(casted_db)
       THEN /\ raised' = Error("ColumnNotFoundError", "select", "casted_db",
                               pks[Least({i \in DOMAIN pks : pks[i] \notin Columns(casted_db)})], 0)
            /\ pc' = "raised"
            /\ UNCHANGED <<ids_in_db, insert_df, ids_in_both>>
       ELSE /\ ids_in_db' = ColumnList(casted_db, pks[1])
            /\ insert_df' = FilterNotIn(df_new, pks[1], ids_in_db')
            /\ ids_in_both' = ColumnList(FilterIn(casted_new, pks[1], ids_in_db'), pks[1])
            /\ pc' = "compare"
            /\ raised' = raised
    /\ idx' = 1
    /\ equals_ids' = <<>>
    /\ update_ids' = <<>>
    /\ UNCHANGED <<df_new, df_db, pks, schema_name, casted_new, casted_db, result, cast_calls>>
    /\ UNCHANGED engineVars

\* lines 463-501: one turn of the loop over ids_in_both
CompareNext ==
    /\ pc = "compare"
    /\ idx <= Len(ids_in_both)
    /\ IF is_identical(ids_in_both[idx])
       THEN equals_ids' = Append(equals_ids, ids_in_both[idx]) /\ update_ids' = update_ids
       ELSE update_ids' = Append(update_ids, ids_in_both[idx]) /\ equals_ids' = equals_ids
    /\ idx' = idx + 1
    /\ UNCHANGED <<df_new, df_db, pks, schema_name, pc, casted_new, casted_db, ids_in_db,
                   ids_in_both, insert_df, result, raised, cast_calls>>
    /\ UNCHANGED engineVars

\* a slip in the result: the tables are built from the coerced new table
BuildResultFromCasted ==
    /\ pc = "compare"
    /\ idx > Len(ids_in_both)
    /\ LET equals_df == IF equals_ids # <<>> THEN FilterIn(casted_new, pks[1], equals_ids)
                        ELSE EmptyTable(df_new.schema)
           update_df == IF update_ids # <<>> THEN FilterIn(casted_new, pks[1], update_ids)
                        ELSE EmptyTable(df_new.schema)
       IN result' = <<insert_df, equals_df, update_df>>
    /\ pc' = "returned"
    /\ UNCHANGED <<df_new, df_db, pks, schema_name, casted_new, casted_db, ids_in_db,
                   ids_in_both, idx, equals_ids, update_ids, insert_df, raised, cast_calls>>
    /\ UNCHANGED engineVars

\* lines 503-507: the result tables, built from the original new table
BuildResult ==
    /\ pc = "compare"
    /\ idx > Len(ids_in_both)
    /\ LET equals_df == IF equals_ids # <<>> THEN FilterIn(df_new, pks[1], equals_ids)
                        ELSE EmptyTable(df_new.schema)
           update_df == IF update_ids # <<>> THEN FilterIn(df_new, pks[1], update_ids)
                        ELSE EmptyTable(df_new.schema)
       IN result' = <<insert_df, equals_df, update_df>>
    /\ pc' = "returned"
    /\ UNCHANGED <<df_new, df_db, pks, schema_name, casted_new, casted_db, ids_in_db,
                   ids_in_both, idx, equals_ids, update_ids, insert_df, raised, cast_calls>>
    /\ UNCHANGED engineVars

Next ==
    \/ CheckArguments
    \/ HandleEmpty
    \/ CastNew
    \/ CastDb
    \/ FindInserts
    \/ CompareNext
    \/ BuildResult

----------------------------------------------------------------------------
(* The calls explored *)

MaxNewRows == 2     \* rows of the new table
MaxDbRows == 2      \* rows of the stored table

Keys == {IntV(1), IntV(2)}

Txt30 == StrV(<<"3", "0", ".", "0">>)
Txt31 == StrV(<<"3", "1">>)
TxtDay1Z == StrV(<<"2", "0", "2", "1", "-", "0", "2", "-", "0", "1", "T", "0", "0", ":", "0", "0", ":", "0", "0", "Z">>)
TxtDay2 == StrV(<<"2", "0", "2", "1", "-", "0", "2", "-", "0", "2">>)
TxtAbc == StrV(<<"a", "b", "c">>)
TxtA == StrV(<<"a">>)
TxtB == StrV(<<"b">>)
Day1 == DateV(2021, 2, 1)
Day2 == DateV(2021, 2, 2)
Day1Midnight == DatetimeV(2021, 2, 1, 0, 0, 0, <<>>)
Day1Noon == DatetimeV(2021, 2, 1, 12, 0, 0, <<>>)
Day2Midnight == DatetimeV(2021, 2, 2, 0, 0, 0, <<>>)

\* the tables of at most n rows over a column typing, the cells of column c
\* drawn from cells[c]
Tables(schema, cells, n) ==
    LET rows == {r \in [{schema[i][1] : i \in DOMAIN schema} -> UNION {cells[c] : c \in DOMAIN cells}] :
                    \A c \in DOMAIN r : r[c] \in cells[c]}
    IN {[schema |-> schema, rows |-> t] : t \in UNION {[1..k -> rows] : k \in 0..n}}

Untouched ==
    /\ pc = "start"
    /\ casted_new = EmptyTable(<<>>) /\ casted_db = EmptyTable(<<>>)
    /\ ids_in_db = <<>> /\ ids_in_both = <<>> /\ idx = 0
    /\ equals_ids = <<>> /\ update_ids = <<>>
    /\ insert_df = EmptyTable(<<>>)
    /\ result = <<>> /\ raised = NoError /\ cast_calls = 0

\* integers sent as text against integers stored, the field edad nullable
\* (personas) or required (contratos)
InitEdad ==
    /\ schema_name \in {"personas", "contratos"}
    /\ pks = <<"id">>
    /\ df_new \in Tables(<<<<"id", "Int64">>, <<"edad", "Utf8">>>>,
                         [id |-> Keys, edad |-> {Null, Txt30, Txt31}], MaxNewRows)
    /\ df_db \in Tables(<<<<"id", "Int64">>, <<"edad", "Int64">>>>,
                        [id |-> Keys, edad |-> {Null, IntV(30)}], MaxDbRows)

\* two fields that vary: integers, and dates sent as text against dates stored
InitFecha ==
    /\ schema_name = "personas"
    /\ pks = <<"id">>
    /\ df_new \in Tables(<<<<"id", "Int64">>, <<"edad", "Int64">>, <<"fecha", "Utf8">>>>,
                         [id |-> Keys, edad |-> {IntV(30), IntV(31)}, fecha |-> {TxtDay1Z, TxtDay2}],
                         MaxNewRows)
    /\ df_db \in Tables(<<<<"id", "Int64">>, <<"edad", "Int64">>, <<"fecha", "Date">>>>,
                        [id |-> {IntV(1)}, edad |-> {IntV(30)}, fecha |-> {Null, Day1}], MaxDbRows)

\* a text no stage of the temporal parser reads
InitUnparsed ==
    /\ schema_name = "personas"
    /\ pks = <<"id">>
    /\ df_new \in Tables(<<<<"id", "Int64">>, <<"fecha", "Utf8">>>>,
                         [id |-> Keys, fecha |-> {TxtAbc, TxtDay2}], MaxNewRows)
    /\ df_db \in Tables(<<<<"id", "Int64">>, <<"fecha", "Utf8">>>>,
                        [id |-> {IntV(1)}, fecha |-> {TxtAbc, TxtDay2}], MaxDbRows)

\* timestamps that differ in the day or in the time of day only
InitMomento ==
    /\ schema_name = "eventos"
    /\ pks = <<"id">>
    /\ df_new \in Tables(<<<<"id", "Int64">>, <<"momento", "Datetime">>>>,
                         [id |-> Keys, momento |-> {Null, Day1Midnight, Day1Noon}], MaxNewRows)
    /\ df_db \in Tables(<<<<"id", "Int64">>, <<"momento", "Datetime">>>>,
                        [id |-> Keys, momento |-> {Day1Midnight, Day2Midnight}], MaxDbRows)

\* the key list, the key columns and their nulls
InitKeys ==
    /\ schema_name \in {"personas", "desconocido"}
    /\ pks \in {<<>>, <<"id">>, <<"id", "edad">>, <<"zona">>, <<"id", "zona">>}
    /\ df_new \in Tables(<<<<"id", "Int64">>, <<"edad", "Int64">>>>,
                         [id |-> {IntV(1), Null}, edad |-> {IntV(30), Null}], MaxNewRows)
                  \cup Tables(<<<<"edad", "Int64">>, <<"zona", "Int64">>>>,
                              [edad |-> {IntV(30)}, zona |-> {IntV(1), Null}], MaxNewRows)
    /\ df_db \in Tables(<<<<"id", "Int64">>, <<"edad", "Int64">>>>,
                        [id |-> {IntV(1), Null}, edad |-> {IntV(30)}], MaxDbRows)
                 \cup Tables(<<<<"id", "Int64">>, <<"zona", "Int64">>>>,
                             [id |-> {IntV(1)}, zona |-> {IntV(1), Null}], MaxDbRows)

\* two key columns, id and fecha, the field edad nullable (personas) or
\* required (contratos)
InitTwoKeys ==
    /\ schema_name \in {"personas", "contratos"}
    /\ pks = <<"id", "fecha">>
    /\ df_new \in Tables(<<<<"id", "Int64">>, <<"edad", "Int64">>, <<"fecha", "Date">>>>,
                         [id |-> Keys, edad |-> {IntV(30)}, fecha |-> {Day1, Day2}], MaxNewRows)
    /\ df_db \in Tables(<<<<"id", "Int64">>, <<"edad", "Int64">>, <<"fecha", "Date">>>>,
                        [id |-> {IntV(1)}, edad |-> {Null, IntV(30)}, fecha |-> {Day1}], MaxDbRows)

\* a column the schema does not declare, nota, in both tables
InitNota ==
    /\ schema_name \in {"personas", "contratos"}
    /\ pks = <<"id">>
    /\ df_new \in Tables(<<<<"id", "Int64">>, <<"edad", "Int64">>, <<"nota", "Utf8">>>>,
                         [id |-> Keys, edad |-> {Null, IntV(30)}, nota |-> {TxtA}], MaxNewRows)
    /\ df_db \in Tables(<<<<"id", "Int64">>, <<"edad", "Int64">>, <<"nota", "Utf8">>>>,
                        [id |-> {IntV(1)}, edad |-> {Null, IntV(30)}, nota |-> {TxtB}], MaxDbRows)

\* texts that are no number and no date in the nullable fields edad and
\* fecha, against stored nulls
InitUncoercible ==
    /\ schema_name = "personas"
    /\ pks = <<"id">>
    /\ df_new \in Tables(<<<<"id", "Int64">>, <<"edad", "Utf8">>, <<"fecha", "Utf8">>>>,
                         [id |-> {IntV(1)}, edad |-> {TxtAbc, Txt30}, fecha |-> {Null, TxtAbc}], MaxNewRows)
    /\ df_db \in Tables(<<<<"id", "Int64">>, <<"edad", "Int64">>, <<"fecha", "Date">>>>,
                        [id |-> {IntV(1)}, edad |-> {Null, IntV(30)}, fecha |-> {Null}], MaxDbRows)

\* no call of the coercion engine is under way
EngineIdle ==
    /\ call = [fn |-> "", value |-> Null, target_type |-> ""]
    /\ frames = <<>>
    /\ returned = Null /\ recast = Null
    /\ step = "idle"

Init ==
    /\ Untouched
    /\ EngineIdle
    /\ \/ InitEdad
       \/ InitFecha
       \/ InitUnparsed
       \/ InitMomento
       \/ InitKeys
       \/ InitTwoKeys
       \/ InitNota
       \/ InitUncoercible

Spec == Init /\ [][Next]_vars

----------------------------------------------------------------------------
(* TypeCoercionEngine and TemporalParser, one call at a time:             *)
(* attempt_cast(value, target_type), parse_date(value) or                 *)
(* parse_datetime(value).  The calls that parse_date and parse_datetime   *)
(* make of each other are steps of their own.                             *)

\* the calls the interpreter lets be in progress at once: a call made when
\* that many are raises RecursionError (sys.getrecursionlimit(), 1000 by
\* default, here a few)
RecursionLimit == 4

\* the texts handed to the engine
RawTexts ==
    {<<"1", "2", "3">>,
     <<"1", "2", "3", ".", "0">>,
     <<"1", "2", "3", ".", "5", "5">>,
     <<" ", "4", "2", " ">>,
     <<"-", "5">>,
     <<"+", "7", ".", "0", "0">>,
     <<"0">>,
     <<"1">>,
     <<"0", ".", "0">>,
     <<".", "5">>,
     <<"n", "a", "n">>,
     <<"-", "I", "n", "f", "i", "n", "i", "t", "y">>,
     <<"a", "b", "c">>,
     <<>>,
     <<" ", " ">>,
     <<"t", "r", "u", "e">>,
     <<"T", "R", "U", "E">>,
     <<" ", "Y", "e", "s", " ">>,
     <<"n", "o">>,
     <<"f">>,
     <<"n">>,
     <<"y">>,
     <<"t">>,
     <<"f", "a", "l", "s", "e">>,
     <<"2", "0", "2", "1", "-", "0", "2", "-", "0", "1">>,
     <<"2", "0", "2", "1", "-", "0", "2", "-", "0", "1", "T", "1", "0", ":", "3", "0", ":", "0", "0", "Z">>,
     <<"2", "0", "2", "1", "/", "0", "2", "/", "0", "1">>,
     <<"0", "1", "/", "0", "2", "/", "2", "0", "2", "1", " ", "1", "0", ":", "0", "0", ":", "0", "0">>,
     <<"2", "0", "2", "1", "-", "0", "2", "-", "3", "0">>,
     <<"1", "0", ":", "3", "0">>}

RawValues ==
    {Null, IntV(0), IntV(1), IntV(123), IntV(-7), BoolV(TRUE), BoolV(FALSE),
     FloatV(FALSE, 0, <<>>), FloatV(FALSE, 123, <<>>), FloatV(FALSE, 123, <<"5", "5">>),
     FloatV(TRUE, 2, <<"5">>), NaN, Inf(FALSE),
     Day1, Day1Midnight, Day1Noon, DatetimeV(2021, 2, 1, 10, 30, 0, <<0>>)}
        \cup {StrV(s) : s \in RawTexts}

TargetTypes == {"int", "float", "str", "bool", "date", "datetime"}

\* the texts A/B/YYYY and A-B-YYYY, A and B of one or two digits
DayTexts == {<<"1">>, <<"2">>, <<"0", "2">>, <<"1", "2">>, <<"1", "3">>, <<"2", "9">>,
             <<"3", "0">>, <<"3", "1">>, <<"0">>, <<"3", "2">>}
YearTexts == {<<"2", "0", "2", "0">>, <<"2", "0", "2", "1">>}
AmbiguousTexts ==
    {a \o <<sep>> \o b \o <<sep>> \o y : a \in DayTexts, b \in DayTexts, y \in YearTexts, sep \in {"/", "-"}}

Calls ==
    {[fn |-> "attempt_cast", value |-> v, target_type |-> tt] : v \in RawValues, tt \in TargetTypes}
        \cup {[fn |-> "parse_date", value |-> v, target_type |-> "date"] :
                 v \in RawValues \cup {StrV(s) : s \in AmbiguousTexts}}
        \cup {[fn |-> "parse_datetime", value |-> v, target_type |-> "datetime"] : v \in RawValues}

EngineInit ==
    /\ Untouched
    /\ df_new = EmptyTable(<<>>) /\ df_db = EmptyTable(<<>>)
    /\ pks = <<>> /\ schema_name = ""
    /\ call \in Calls
    /\ frames = <<>>
    /\ returned = Null /\ recast = Null
    /\ step = "call"

\* the call goes to the temporal parser with a text: attempt_cast lines 124-128
\* with a value that is not yet of the target type, parse_date line 147,
\* parse_datetime line 232
ParsesText ==
    /\ call.value.k = "str"
    /\ call.fn = "attempt_cast" => call.target_type \in {"date", "datetime"}

\* the stages that parse_date and parse_datetime go through on a text
\* before they turn to each other
Stages(fn, s) == IF fn = "parse_date" THEN DateStages(s) ELSE DatetimeStages(s)

Parser(target_type) == IF target_type = "date" THEN "parse_date" ELSE "parse_datetime"
Other(fn) == IF fn = "parse_date" THEN "parse_datetime" ELSE "parse_date"
Top == frames[Len(frames)]

\* a call that needs no parsing of a text returns at once
CallDirect ==
    /\ step = "call"
    /\ ~ParsesText
    /\ returned' = IF call.fn = "attempt_cast" THEN attempt_cast(call.value, call.target_type)
                   ELSE IF call.fn = "parse_date" THEN parse_date(call.value)
                   ELSE parse_datetime(call.value)
    /\ step' = "done"
    /\ UNCHANGED <<call, frames, recast>>
    /\ UNCHANGED splitVars

\* a call with a text to parse enters parse_date or parse_datetime
CallParser ==
    /\ step = "call"
    /\ ParsesText
    /\ frames' = <<Parser(call.target_type)>>
    /\ step' = "parsing"
    /\ UNCHANGED <<call, returned, recast>>
    /\ UNCHANGED splitVars

\* one of the stages of the innermost call reads the text
StagesSucceed ==
    /\ step = "parsing"
    /\ \E r \in {Stages(Top, call.value.v)} :
          /\ ~IsRaise(r)
          /\ returned' = r
    /\ step' = "unwinding"
    /\ UNCHANGED <<call, frames, recast>>
    /\ UNCHANGED splitVars

\* no stage reads the text: parse_date turns to parse_datetime (line 215)
\* and parse_datetime to parse_date (line 282), with the same text
StagesFail ==
    /\ step = "parsing"
    /\ IsRaise(Stages(Top, call.value.v))
    /\ Len(frames) < RecursionLimit
    /\ frames' = Append(frames, Other(Top))
    /\ UNCHANGED <<call, returned, recast, step>>
    /\ UNCHANGED splitVars

\* no stage reads the text and no further call can be made: RecursionError,
\* which nothing on the way out catches
RecursionOverflow ==
    /\ step = "parsing"
    /\ IsRaise(Stages(Top, call.value.v))
    /\ Len(frames) = RecursionLimit
    /\ returned' = Raise("RecursionError")
    /\ frames' = <<>>
    /\ step' = "done"
    /\ UNCHANGED <<call, recast>>
    /\ UNCHANGED splitVars

\* the innermost call returns to its caller: parse_date makes a date of the
\* timestamp it got (lines 216-217), parse_datetime a timestamp at midnight
\* of the date it got (lines 283-284)
Return ==
    /\ step = "unwinding"
    /\ frames' = SubSeq(frames, 1, Len(frames) - 1)
    /\ IF Len(frames) = 1
       THEN returned' = returned /\ step' = "done"
       ELSE /\ returned' = IF frames[Len(frames) - 1] = "parse_date" THEN DateOf(returned)
                           ELSE Combine(returned.v, <<0, 0, 0>>, <<>>)
            /\ step' = step
    /\ UNCHANGED <<call, recast>>
    /\ UNCHANGED splitVars

\* attempt_cast applied to what attempt_cast returned, same target type
CastAgain ==
    /\ step = "done"
    /\ call.fn = "attempt_cast"
    /\ ~IsRaise(returned)
    /\ recast' = attempt_cast(returned, call.target_type)
    /\ step' = "twice"
    /\ UNCHANGED <<call, frames, returned>>
    /\ UNCHANGED splitVars

EngineNext ==
    \/ CallDirect
    \/ CallParser
    \/ StagesSucceed
    \/ StagesFail
    \/ RecursionOverflow
    \/ Return
    \/ CastAgain

EngineSpec == EngineInit /\ [][EngineNext]_vars

\* what the steps of a call arrive at is what the operators give
StepsAgreeWithOperators ==
    step \in {"done", "twice"} =>
        returned = IF call.fn = "attempt_cast" THEN attempt_cast(call.value, call.target_type)
                   ELSE IF call.fn = "parse_date" THEN parse_date(call.value)
                   ELSE parse_datetime(call.value)

----------------------------------------------------------------------------
(* Properties of split.  The three tables it returns are result[1],        *)
(* result[2] and result[3]: ToInsert, Unchanged and ToUpdate.              *)

ToInsert == result[1]
Unchanged == result[2]
ToUpdate == result[3]

\* the row appears in the table
Holds(t, row) == \E i \in DOMAIN t.rows : t.rows[i] = row

\* the key value of a row: the first key column joins the tables
KeyOf(row) == row[pks[1]]

\* the rows of a table that carry the key value k
RowsOfKey(t, k) == {i \in DOMAIN t.rows : KeyOf(t.rows[i]) = k}

\* the key value occurs in exactly one row of each original table
OnceInEach(k) == Cardinality(RowsOfKey(df_new, k)) = 1 /\ Cardinality(RowsOfKey(df_db, k)) = 1

\* split went through the general case: both tables coerced and compared
Compared == pc = "returned" /\ df_new.rows # <<>> /\ df_db.rows # <<>>

\* the canonical value of field f of an original row: the value coerced to
\* the type the schema declares, null for a column the row lacks
Canonical(row, f) ==
    IF f \in DOMAIN row
    THEN attempt_cast(row[f], TargetType(FieldOf(schema_mapping[schema_name], f)))
    ELSE Null

NonKeyFields == FieldNames(schema_mapping[schema_name]) \ Range(pks)

IsTemporal(x) == x.k \in {"date", "datetime"}
CalendarDate(x) == <<x.v[1], x.v[2], x.v[3]>>

\* canonical equality of two values: null equals null only, dates and
\* timestamps are compared by calendar date, anything else by value
CanonEqual(a, b) ==
    IF a.k = "null" \/ b.k = "null" THEN a.k = b.k
    ELSE IF IsTemporal(a) /\ IsTemporal(b) THEN CalendarDate(a) = CalendarDate(b)
    ELSE a = b

\* the contract of split's arguments holds: the schema is registered, the
\* key list is not empty, every key column is in both tables and holds no null
PreconditionsMet ==
    /\ schema_name \in DOMAIN schema_mapping
    /\ pks # <<>>
    /\ \A n \in DOMAIN pks : \A t \in {df_new, df_db} :
          /\ pks[n] \in Columns(t)
          /\ \A i \in DOMAIN t.rows : t.rows[i][pks[n]] # Null

\* C1 (as claimed): for every row of the new table whose key value also
\* occurs in the stored table, if all non-key fields of the row are
\* canonically equal to those of the stored row of that key, the row appears
\* in Unchanged and never in ToUpdate.  Stated for the key values that occur
\* once in each table, where "the stored row of that key" is one row.
C1_EqualRowIsUnchanged ==
    pc = "returned" =>
        \A i \in DOMAIN df_new.rows : \A j \in DOMAIN df_db.rows :
            (/\ KeyOf(df_new.rows[i]) = KeyOf(df_db.rows[j])
             /\ OnceInEach(KeyOf(df_new.rows[i]))
             /\ \A f \in NonKeyFields :
                   CanonEqual(Canonical(df_new.rows[i], f), Canonical(df_db.rows[j], f)))
            => Holds(Unchanged, df_new.rows[i]) /\ ~Holds(ToUpdate, df_new.rows[i])

\* C2 (as claimed): for every row of the new table whose key value also
\* occurs in the stored table, if at least one non-key field of the row
\* compares unequal with the stored row of that key, the row appears in
\* ToUpdate and not in Unchanged.  Stated for the key values that occur once
\* in each table.
C2_DifferentRowIsToUpdate ==
    pc = "returned" =>
        \A i \in DOMAIN df_new.rows : \A j \in DOMAIN df_db.rows :
            (/\ KeyOf(df_new.rows[i]) = KeyOf(df_db.rows[j])
             /\ OnceInEach(KeyOf(df_new.rows[i]))
             /\ \E f \in NonKeyFields :
                   ~CanonEqual(Canonical(df_new.rows[i], f), Canonical(df_db.rows[j], f)))
            => Holds(ToUpdate, df_new.rows[i]) /\ ~Holds(Unchanged, df_new.rows[i])

\* C3: whenever split returns, every row of the new table whose key value
\* occurs in no row of the stored table appears in ToInsert, and no key value
\* that occurs only in the stored table appears in ToInsert, Unchanged or
\* ToUpdate.
C3_InsertsAndStoredOnlyKeys ==
    pc = "returned" =>
        /\ \A i \in DOMAIN df_new.rows :
              RowsOfKey(df_db, KeyOf(df_new.rows[i])) = {} => Holds(ToInsert, df_new.rows[i])
        /\ \A j \in DOMAIN df_db.rows :
              RowsOfKey(df_new, KeyOf(df_db.rows[j])) = {}
              => \A t \in 1..3 : RowsOfKey(result[t], KeyOf(df_db.rows[j])) = {}

\* C3, its case: split compared two tables, the new one with a key the
\* stored one lacks and the stored one with a key the new one lacks
C3_Witness ==
    /\ Compared
    /\ \E i \in DOMAIN df_new.rows : RowsOfKey(df_db, KeyOf(df_new.rows[i])) = {}
    /\ \E j \in DOMAIN df_db.rows : RowsOfKey(df_new, KeyOf(df_db.rows[j])) = {}
    /\ ToInsert.rows # <<>>

\* C4 (as claimed): whenever split returns, each row of the new table appears
\* in at least one of ToInsert, Unchanged, ToUpdate, and the three outputs
\* together hold as many rows as the new table.
C4_EveryRowClassified ==
    pc = "returned" =>
        /\ \A i \in DOMAIN df_new.rows : \E t \in 1..3 : Holds(result[t], df_new.rows[i])
        /\ Len(ToInsert.rows) + Len(Unchanged.rows) + Len(ToUpdate.rows) = Len(df_new.rows)

\* the key values both coerced tables hold: the keys split compares
ComparedKeys ==
    {KeyOf(casted_new.rows[i]) : i \in DOMAIN casted_new.rows}
        \cap {KeyOf(casted_db.rows[j]) : j \in DOMAIN casted_db.rows}

\* the coerced row split fetches for the key value k: the first that carries it
Fetched(t, k) == t.rows[Least(RowsOfKey(t, k))]

\* the non-key fields of the coerced rows
ComparedFields == Columns(casted_new) \ Range(pks)

\* every row of the new table with the key value k is in ToUpdate and none
\* is in Unchanged, and the other way round
AllToUpdate(k) ==
    \A i \in RowsOfKey(df_new, k) :
        Holds(ToUpdate, df_new.rows[i]) /\ ~Holds(Unchanged, df_new.rows[i])
AllUnchanged(k) ==
    \A i \in RowsOfKey(df_new, k) :
        Holds(Unchanged, df_new.rows[i]) /\ ~Holds(ToUpdate, df_new.rows[i])

BothNull(a, b) == a = Null /\ b = Null
OneNull(a, b) == (a = Null) # (b = Null)

SchemaColumns ==
    [personas |-> <<<<"id", "Int64">>, <<"edad", "Int64">>, <<"fecha", "Date">>>>,
     contratos |-> <<<<"id", "Int64">>, <<"edad", "Int64">>, <<"fecha", "Date">>>>,
     eventos |-> <<<<"id", "Int64">>, <<"momento", "Datetime">>, <<"nombre", "Utf8">>>>]

\* C7: split with an empty new table, its preconditions met, returns three
\* empty tables whose columns and types are those of the schema, whatever
\* the stored table holds.
C7_EmptyNewTable ==
    (df_new.rows = <<>> /\ PreconditionsMet) =>
        /\ pc \in {"start", "checked", "returned"}
        /\ pc = "returned" =>
              \A t \in 1..3 : result[t] = [schema |-> SchemaColumns[schema_name], rows |-> <<>>]

\* C7, its case: split returned on an empty new table and a stored table
\* that holds rows
C7_Witness == pc = "returned" /\ df_new.rows = <<>> /\ df_db.rows # <<>>

\* C8: split with an empty stored table and a non-empty new table, its
\* preconditions met, returns ToInsert equal to the new table (same rows,
\* original values, original order) and empty Unchanged and ToUpdate, and no
\* row is coerced, validated or dropped on the way.
C8_EmptyStoredTable ==
    (df_db.rows = <<>> /\ df_new.rows # <<>> /\ PreconditionsMet) =>
        /\ pc \in {"start", "checked", "returned"}
        /\ cast_calls = 0
        /\ pc = "returned" =>
              /\ ToInsert = df_new
              /\ Unchanged.rows = <<>> /\ ToUpdate.rows = <<>>

\* C8, its case: split returned on an empty stored table and a new table
\* with a row that validation would refuse and a text that coercion would
\* change
C8_Witness ==
    /\ pc = "returned" /\ df_db.rows = <<>>
    /\ \E i \in DOMAIN df_new.rows :
          cast_row(schema_mapping[schema_name], df_new.rows[i]).exc = "ValueError"
    /\ \E i \in DOMAIN df_new.rows : \E f \in NonKeyFields :
          /\ f \in DOMAIN df_new.rows[i]
          /\ Canonical(df_new.rows[i], f) # df_new.rows[i][f]

\* the exceptions of split, by what they say
EmptyPrimaryKeyList(e) == e.type = "ValueError" /\ e.what = "cannot be empty"
MissingPrimaryKeyColumn(e) == e.type = "ValueError" /\ e.what = "does not exist"
NullPrimaryKeyValue(e) == e.type = "ValueError" /\ e.what = "contains null values"

\* the table an exception names
Named(e) == IF e.table = "df_new" THEN df_new ELSE df_db

\* nothing was coerced and no table was returned
NothingDone ==
    /\ cast_calls = 0
    /\ casted_new = EmptyTable(<<>>) /\ casted_db = EmptyTable(<<>>)
    /\ result = <<>>

\* a listed key column that one of the tables has holds a null there
NullInKeyColumn ==
    \E n \in DOMAIN pks : \E t \in {df_new, df_db} :
        pks[n] \in Columns(t) /\ \E i \in DOMAIN t.rows : t.rows[i][pks[n]] = Null

\* a listed key column is absent from one of the tables
KeyColumnAbsent == \E n \in DOMAIN pks : \E t \in {df_new, df_db} : pks[n] \notin Columns(t)

\* C9 (as claimed): any null value in a declared primary-key column of the
\* new table or of the stored table makes split fail with
\* NullPrimaryKeyValue, before any row of either table is coerced.  Stated
\* for key columns that both tables have: the check of the key columns comes
\* before the check of their values.
C9_AnyNullKeyFails ==
    (~KeyColumnAbsent /\ NullInKeyColumn /\ pc # "start") =>
        pc = "raised" /\ NullPrimaryKeyValue(raised) /\ NothingDone

\* C9 (amended): when the schema name is registered and every listed key
\* column exists in both tables, any null value in a listed key column of
\* the new table or of the stored table makes split fail with
\* NullPrimaryKeyValue, naming a table and a listed column that holds a null
\* there, before any row of either table is coerced.
C9_NullKeyFailsAfterOtherChecks ==
    (/\ schema_name \in DOMAIN schema_mapping
     /\ ~KeyColumnAbsent
     /\ NullInKeyColumn
     /\ pc # "start") =>
        /\ pc = "raised" /\ NullPrimaryKeyValue(raised) /\ NothingDone
        /\ raised.table \in {"df_new", "df_db"}
        /\ raised.column \in Range(pks)
        /\ \E i \in DOMAIN Named(raised).rows : Named(raised).rows[i][raised.column] = Null

\* C9, its case: split failed on a null key value that only the stored
\* table holds
C9_Witness ==
    /\ pc = "raised" /\ NullPrimaryKeyValue(raised)
    /\ raised.table = "df_db"
    /\ df_new.rows # <<>>
    /\ \A n \in DOMAIN pks : \A i \in DOMAIN df_new.rows : df_new.rows[i][pks[n]] # Null

\* C10 (as claimed): split rejects a malformed key specification before any
\* coercion and returns no tables: an empty key list fails with
\* EmptyPrimaryKeyList, and a listed key column absent from the new table or
\* from the stored table fails with MissingPrimaryKeyColumn naming that
\* table and column.
C10_MalformedKeysFail ==
    /\ (pks = <<>> /\ pc # "start") =>
          pc = "raised" /\ EmptyPrimaryKeyList(raised) /\ NothingDone
    /\ (KeyColumnAbsent /\ pc # "start") =>
          /\ pc = "raised" /\ MissingPrimaryKeyColumn(raised) /\ NothingDone
          /\ raised.table \in {"df_new", "df_db"}
          /\ raised.column \in Range(pks)
          /\ raised.column \notin Columns(Named(raised))

\* C10 (amended): when the schema name is registered, split rejects a
\* malformed key specification before any coercion and returns no tables: an
\* empty key list fails with EmptyPrimaryKeyList, and a listed key column
\* absent from the new table or from the stored table fails with
\* MissingPrimaryKeyColumn naming a table that lacks the column, and the column.
C10_MalformedKeysFailAfterSchema ==
    schema_name \in DOMAIN schema_mapping =>
        /\ (pks = <<>> /\ pc # "start") =>
              pc = "raised" /\ EmptyPrimaryKeyList(raised) /\ NothingDone
        /\ (KeyColumnAbsent /\ pc # "start") =>
              /\ pc = "raised" /\ MissingPrimaryKeyColumn(raised) /\ NothingDone
              /\ raised.table \in {"df_new", "df_db"}
              /\ raised.column \in Range(pks)
              /\ raised.column \notin Columns(Named(raised))

\* C10, its case: split failed on a key column that the new table has and
\* the stored table lacks
C10_Witness ==
    /\ pc = "raised" /\ MissingPrimaryKeyColumn(raised)
    /\ raised.table = "df_db"
    /\ raised.column \in Columns(df_new)

\* s is a subsequence of t: the elements of s are elements of t, met in t
\* in the order they have in s
SubsequenceOf(s, t) ==
    \E at \in [DOMAIN s -> DOMAIN t] :
        /\ \A i \in DOMAIN s : \A j \in DOMAIN s : i < j => at[i] < at[j]
        /\ \A i \in DOMAIN s : t[at[i]] = s[i]

\* C11: whenever split returns, each of ToInsert, Unchanged and ToUpdate is
\* a subsequence of the new table's rows: every output row is an original
\* (uncoerced) row of the new table, and the rows keep the relative order
\* they have in the new table.
C11_OutputsAreSubsequences ==
    pc = "returned" => \A t \in 1..3 : SubsequenceOf(result[t].rows, df_new.rows)

\* C11, its case: split compared the tables and returned an Unchanged or
\* ToUpdate table of two different rows, the first with a value that
\* coercion changes
C11_Witness ==
    /\ Compared
    /\ \E t \in 2..3 :
          /\ Len(result[t].rows) >= 2
          /\ result[t].rows[1] # result[t].rows[2]
          /\ \E f \in NonKeyFields :
                /\ f \in DOMAIN result[t].rows[1]
                /\ Canonical(result[t].rows[1], f) # result[t].rows[1][f]

\* a call of the engine has ended, by returning or by raising
Ended == step \in {"done", "twice"}

\* C12 (as claimed): attempt_cast never raises.  For every raw value and
\* every target type, a conversion that fails is reported as null: whatever
\* the call, it ends without an exception reaching the caller.
C12_AttemptCastNeverRaises ==
    (call.fn = "attempt_cast" /\ Ended) => ~IsRaise(returned)

\* the text matches none of the formats the temporal parser supports: no
\* stage of parse_date and no stage of parse_datetime reads it
MatchesNoFormat(s) == IsRaise(DateStages(s)) /\ IsRaise(DatetimeStages(s))

\* C13 (as claimed): parse_date and parse_datetime terminate on every text.
\* When the text matches none of the supported formats, the chain of
\* fallback stages ends and the call returns null.
C13_UnreadTextGivesNull ==
    (/\ call.fn \in {"parse_date", "parse_datetime"}
     /\ call.value.k = "str"
     /\ MatchesNoFormat(call.value.v)
     /\ Ended)
    => returned = Null

\* split is past its call of cast_dataframe on the new table
NewTableCasted == pc \in {"cast_db", "find", "compare"}

\* the rows of a table whose coerced form passes the validation of the
\* schema, coerced, in the order of the table
PassingRows(df, schema) ==
    LET passing == {i \in DOMAIN df.rows : cast_row(schema, df.rows[i]).exc = ""}
        Nth(n) == CHOOSE i \in passing : Cardinality({j \in passing : j < i}) = n - 1
    IN [n \in 1..Cardinality(passing) |-> cast_row(schema, df.rows[Nth(n)]).row]

\* C14 (as claimed): cast_dataframe with a known schema name always
\* completes, and returns exactly the input rows whose coerced form passes
\* the validation, in input order, in a table typed per the schema (empty
\* when every row fails).
C14_CastDataframeCompletes ==
    /\ ~(pc = "raised" /\ raised.what = "cast_row")
    /\ NewTableCasted =>
          /\ casted_new.schema = _get_polars_schema(schema_mapping[schema_name])
          /\ casted_new.rows = PassingRows(df_new, schema_mapping[schema_name])

\* the texts handed to the engine that denote a number with no fractional
\* part, each with the number, and those that denote one with a fractional part
WholeNumberTexts ==
    {<<<<"1", "2", "3">>, 123>>,
     <<<<"1", "2", "3", ".", "0">>, 123>>,
     <<<<" ", "4", "2", " ">>, 42>>,
     <<<<"-", "5">>, -5>>,
     <<<<"+", "7", ".", "0", "0">>, 7>>,
     <<<<"0">>, 0>>,
     <<<<"1">>, 1>>,
     <<<<"0", ".", "0">>, 0>>}
FractionalTexts == {<<"1", "2", "3", ".", "5", "5">>, <<".", "5">>}

\* C15: attempt_cast to Integer.  A text or a float that denotes a number
\* with no fractional part yields that integer; a text or a float with a
\* fractional part yields null; a text that is no number yields null; null
\* yields null.
C15_CastToInteger ==
    (call.fn = "attempt_cast" /\ call.target_type = "int" /\ Ended) =>
        LET value == call.value
        IN /\ value.k = "null" => returned = Null
           /\ value.k = "str" =>
                 /\ \A w \in WholeNumberTexts : value.v = w[1] => returned = IntV(w[2])
                 /\ value.v \in FractionalTexts => returned = Null
                 /\ value.v \notin {w[1] : w \in WholeNumberTexts} => returned = Null
           /\ value.k = "float" =>
                 IF value.v[1] = "" /\ value.v[4] = <<>>
                 THEN returned = IntV(IF value.v[2] THEN 0 - value.v[3] ELSE value.v[3])
                 ELSE returned = Null

\* C15, its case: the text 123.0 was cast to the integer 123
C15_Witness ==
    /\ call = [fn |-> "attempt_cast", value |-> StrV(<<"1", "2", "3", ".", "0">>), target_type |-> "int"]
    /\ Ended
    /\ returned = IntV(123)

\* the words the cast to Boolean reads as true and as false
TrueWords == {<<"t", "r", "u", "e">>, <<"y", "e", "s">>, <<"1">>, <<"t">>, <<"y">>}
FalseWords == {<<"f", "a", "l", "s", "e">>, <<"n", "o">>, <<"0">>, <<"f">>, <<"n">>, <<>>}

\* C16: attempt_cast to Boolean.  A text is lower-cased and stripped; then
\* true, yes, 1, t, y give true, false, no, 0, f, n and the empty text give
\* false, and any other text gives true.  The number zero gives false and
\* any other number true; a boolean is returned as it is; null gives null.
C16_CastToBoolean ==
    (call.fn = "attempt_cast" /\ call.target_type = "bool" /\ Ended) =>
        LET value == call.value
        IN /\ value.k = "null" => returned = Null
           /\ value.k = "bool" => returned = value
           /\ value.k = "str" =>
                 LET word == Strip(Lower(value.v))
                 IN /\ word \in TrueWords => returned = BoolV(TRUE)
                    /\ word \in FalseWords => returned = BoolV(FALSE)
                    /\ word \notin TrueWords \cup FalseWords => returned = BoolV(TRUE)
           /\ value.k = "int" => returned = BoolV(value.v # 0)
           /\ (value.k = "float" /\ value.v[1] # "nan") =>
                 returned = BoolV(value.v[1] = "inf" \/ value.v[3] # 0 \/ value.v[4] # <<>>)

\* C16, its case: the text " Yes " was cast to true
C16_Witness ==
    /\ call = [fn |-> "attempt_cast", value |-> StrV(<<" ", "Y", "e", "s", " ">>), target_type |-> "bool"]
    /\ Ended
    /\ returned = BoolV(TRUE)

C18_TimestampBecomesDate ==
    (/\ call.fn = "parse_date" \/ (call.fn = "attempt_cast" /\ call.target_type = "date")
     /\ call.value.k = "datetime"
     /\ Ended)
    => returned = DateOf(call.value)

\* the three numbers of a text A/B/YYYY or A-B-YYYY
PartsOf(s) ==
    LET Numbers(p) == [i \in 1..3 |-> DigitsVal(p[i])]
    IN Numbers(Split(s, IF Contains(s, "/") THEN "/" ELSE "-"))

\* C19: parse_date on a text A/B/YYYY or A-B-YYYY, A and B of one or two
\* digits, tries month first, then day first.  When month A, day B is a
\* valid date, that date is returned (so a text that both readings make a
\* date of is read month first); otherwise, when month B, day A is a valid
\* date, that one is.
C19_MonthFirstThenDayFirst ==
    (/\ call.fn = "parse_date"
     /\ call.value.k = "str"
     /\ call.value.v \in AmbiguousTexts
     /\ Ended)
    => LET Read(n) ==
               IF ValidDate(n[3], n[1], n[2]) THEN returned = DateV(n[3], n[1], n[2])
               ELSE ValidDate(n[3], n[2], n[1]) => returned = DateV(n[3], n[2], n[1])
       IN Read(PartsOf(call.value.v))

\* C19, its case: parse_date returned from 13/02/2021, which only the day
\* first reading makes a date of
C19_Witness ==
    /\ call.fn = "parse_date"
    /\ call.value = StrV(<<"1", "3", "/", "0", "2", "/", "2", "0", "2", "1">>)
    /\ Ended
    /\ returned = DateV(2021, 2, 13)

\* C20 (as claimed): split with two or more key columns matches the rows
\* of the two tables by the first listed key column only.  A new row whose
\* first-key value occurs in the stored table is never placed in ToInsert,
\* even when its other key columns differ from every stored row; and the
\* other key columns take no part in the field comparison: rows matched on
\* the first key whose non-key fields are all equal are Unchanged.
C20_FirstKeyOnly ==
    (pc = "returned" /\ Len(pks) >= 2) =>
        /\ \A i \in DOMAIN df_new.rows :
              RowsOfKey(df_db, KeyOf(df_new.rows[i])) # {} => ~Holds(ToInsert, df_new.rows[i])
        /\ \A k \in ComparedKeys :
              (\A f \in ComparedFields : CanonEqual(Fetched(casted_new, k)[f], Fetched(casted_db, k)[f]))
              => AllUnchanged(k)

\* several rows of one of the original tables carry the key value k
Repeated(k) == Cardinality(RowsOfKey(df_new, k)) > 1 \/ Cardinality(RowsOfKey(df_db, k)) > 1

\* the first coerced rows of the key value k agree on every compared field
FirstRowsAgree(k) ==
    \A f \in ComparedFields : CanonEqual(Fetched(casted_new, k)[f], Fetched(casted_db, k)[f])

\* no row of the new table with the key value k is in ToInsert
NoneToInsert(k) == \A i \in RowsOfKey(df_new, k) : ~Holds(ToInsert, df_new.rows[i])

\* C21: split with duplicate key values.  For a key value that several rows
\* of a table share and that both coerced tables hold, the first coerced new
\* row with that key is compared with the first coerced stored row with
\* that key; every row of the new table that carries the key is in
\* Unchanged when the two agree, in ToUpdate when they differ, and in no
\* other output.
C21_FirstMatchDecides ==
    Compared =>
        \A k \in ComparedKeys :
            Repeated(k) =>
                /\ NoneToInsert(k)
                /\ IF FirstRowsAgree(k) THEN AllUnchanged(k) ELSE AllToUpdate(k)

\* C21, its case: split returned after comparing a key that two rows of the
\* new table and two rows of the stored table carry, the coerced rows of
\* either table differing in a field, and the first rows agreeing
C21_Witness ==
    /\ Compared
    /\ \E k \in ComparedKeys :
          /\ \E i, j \in RowsOfKey(casted_new, k) :
                \E f \in ComparedFields : ~CanonEqual(casted_new.rows[i][f], casted_new.rows[j][f])
          /\ \E i, j \in RowsOfKey(casted_db, k) :
                \E f \in ComparedFields : ~CanonEqual(casted_db.rows[i][f], casted_db.rows[j][f])
          /\ Cardinality(RowsOfKey(df_new, k)) > 1
          /\ AllUnchanged(k)

\* the outputs of split that hold the row
OutputsOf(row) == {n \in 1..3 : Holds(result[n], row)}

\* C22: the outputs of split are pairwise disjoint.  Whenever split returns
\* on arguments that meet its preconditions, tables with duplicate key
\* values and rows that fail validation included, no row of the new table
\* is in more than one of ToInsert, Unchanged and ToUpdate.
C22_OutputsDisjoint ==
    (pc = "returned" /\ PreconditionsMet) =>
        \A i \in DOMAIN df_new.rows : Cardinality(OutputsOf(df_new.rows[i])) <= 1

\* C22, its case: split returned two outputs that are not empty, for a new
\* table with a row that fails validation or for tables where a compared
\* key is carried by several rows
C22_Witness ==
    /\ Compared /\ PreconditionsMet
    /\ Cardinality({n \in 1..3 : result[n].rows # <<>>}) = 2
    /\ \/ Len(casted_new.rows) < Len(df_new.rows)
       \/ \E k \in ComparedKeys : Repeated(k)

\* the columns the schema declares, with the key columns
DeclaredColumns == FieldNames(schema_mapping[schema_name]) \cup Range(pks)

\* a table without the columns the schema does not declare
Declared(df) ==
    [schema |-> SelectSeq(df.schema, LAMBDA col : col[1] \in DeclaredColumns),
     rows |-> [i \in DOMAIN df.rows |->
                  [c \in DOMAIN df.rows[i] \cap DeclaredColumns |-> df.rows[i][c]]]]

\* the key values of the rows of a table
KeysOf(df) == {KeyOf(df.rows[i]) : i \in DOMAIN df.rows}

\* the partition of keys that split makes of a new and a stored table:
\* <<keys to insert, keys unchanged, keys to update>>
KeyPartition(new, db) ==
    IF new.rows = <<>> THEN <<{}, {}, {}>>
    ELSE IF db.rows = <<>> THEN <<KeysOf(new), {}, {}>>
    ELSE LET cn == cast_dataframe(new, schema_name).df
             cd == cast_dataframe(db, schema_name).df
             both == KeysOf(cn) \cap KeysOf(cd)
             Same(k) == IsIdenticalFrom(FirstRow(cn, pks[1], k), FirstRow(cd, pks[1], k),
                                        RowKeys(cn), 1)
         IN <<KeysOf(new) \ KeysOf(cd), {k \in both : Same(k)}, {k \in both : ~Same(k)}>>

\* the partition split returned is the one it makes of the two tables
\* without their undeclared columns
PartitionOfDeclared ==
    <<KeysOf(ToInsert), KeysOf(Unchanged), KeysOf(ToUpdate)>>
        = KeyPartition(Declared(df_new), Declared(df_db))

\* C23 (as claimed): the classification of split depends only on the key
\* column and on the fields the schema declares.  Two runs whose tables
\* agree on every declared column return the same partition of keys (the
\* partition returned is the partition of the tables without their
\* undeclared columns), so a new row and a stored row of one key that
\* differ in undeclared columns only are Unchanged.
C23_UndeclaredColumnsIgnored ==
    (pc = "returned" /\ PreconditionsMet) =>
        /\ PartitionOfDeclared
        /\ \A i \in DOMAIN df_new.rows : \A j \in DOMAIN df_db.rows :
              (/\ OnceInEach(KeyOf(df_new.rows[i]))
               /\ \A c \in DeclaredColumns \cap Columns(df_new) \cap Columns(df_db) :
                     df_new.rows[i][c] = df_db.rows[j][c]
               /\ Columns(df_new) \cap DeclaredColumns = Columns(df_db) \cap DeclaredColumns
               /\ \E c \in Columns(df_new) \ DeclaredColumns :
                     c \in Columns(df_db) /\ df_new.rows[i][c] # df_db.rows[j][c])
              => Holds(Unchanged, df_new.rows[i])

\* the field is nullable in the schema
IsNullable(f) == FieldOf(schema_mapping[schema_name], f).type = "null"

\* the row holds a value in field f that the coercion to the declared type
\* does not read
FailsCoercion(row, f) ==
    /\ f \in DOMAIN row /\ row[f] # Null
    /\ Canonical(row, f) = Null \/ IsRaise(Canonical(row, f))

\* C24 (as claimed): split treats a value that fails coercion in a nullable
\* field as null.  For a key that occurs once in each table, a new row whose
\* nullable non-key field holds a value that fails coercion is not dropped
\* and compares equal to a stored row whose field is null: when all other
\* fields are equal, split returns and the row is Unchanged.
C24_UncoercibleIsNull ==
    (pc \in {"returned", "raised"} /\ PreconditionsMet) =>
        \A i \in DOMAIN df_new.rows : \A j \in DOMAIN df_db.rows :
            (/\ KeyOf(df_new.rows[i]) = KeyOf(df_db.rows[j])
             /\ OnceInEach(KeyOf(df_new.rows[i]))
             /\ \E f \in NonKeyFields :
                   /\ IsNullable(f)
                   /\ FailsCoercion(df_new.rows[i], f)
                   /\ Canonical(df_db.rows[j], f) = Null
                   /\ \A g \in NonKeyFields \ {f} :
                         CanonEqual(Canonical(df_new.rows[i], g), Canonical(df_db.rows[j], g)))
            => pc = "returned" /\ Holds(Unchanged, df_new.rows[i])

====
